---- MODULE Spec2Model ----
(***************************************************************************)
(* Model of src/tokenizer/lap_tokenizer_v4.py: lap_eigen (the spectral     *)
(* embedding, "embed") and token_construction (the token assembly,         *)
(* "assemble").  One call of token_construction is a process whose         *)
(* position pc walks through the statements of the function; a numpy call  *)
(* that raises ends the call in pc = "raised".                             *)
(*                                                                         *)
(* Numbers.  Array cells are tagged tuples so that exact numbers and the   *)
(* real numbers the model cannot compute stay apart:                       *)
(*   <<"num", n>>            the integer n                                 *)
(*   <<"recip", d>>          1/d                (d # 0)                    *)
(*   <<"rsqrt", d>>          1/sqrt(d)          (d > 0)                    *)
(*   <<"lap", e, a, di, dj>> e - a/sqrt(di*dj)  (an entry of L)            *)
(*   <<"eig", k, r>>         component r of the unit eigenvector whose     *)
(*                           eigenvalue has rank k in ascending order      *)
(*   <<"inf">>, <<"nan">>    the IEEE non-finite values                    *)
(* Matrices are functions from the 0-based row index to the row; a row of  *)
(* A is a function of the 0-based column index, every other row is a       *)
(* sequence of cells (column c of numpy is position c+1).                  *)
(***************************************************************************)
EXTENDS Integers, Sequences, FiniteSets, TLC

\* Bounds of the model.
MaxN == 2
MaxDp == 2
MaxF == 2
MaxCap == 2

\* How the nonzero entries of a drawn adjacency matrix are weighted: all 1
\* (the 0/1 matrices of the tests), or every entry with a weight of its own.
WeightSchemes == {"unit", "distinct"}

VARIABLES
    A,          \* argument A: the adjacency matrix
    Xv,         \* argument Xv: the node features
    F,          \* Xv.shape[1]
    dp,         \* argument dp
    max_edges,  \* the module global max_edges (the capacity)
    pc,         \* position of the call
    err,        \* the exception that ended the call, or "none"
    node_pairs, \* local node_pairs
    Xe,         \* local Xe
    P,          \* local P
    new_Xv,     \* local new_Xv
    new_Xe,     \* local new_Xe
    X,          \* local X
    padded_X    \* the returned array

vars == <<A, Xv, F, dp, max_edges, pc, err, node_pairs, Xe, P, new_Xv, new_Xe,
          X, padded_X>>

inputs == <<A, Xv, F, dp, max_edges>>

----------------------------------------------------------------------------
\* Cells

Num(n) == <<"num", n>>
NaN == <<"nan">>
Inf == <<"inf">>
Recip(d) == <<"recip", d>>
RSqrt(d) == <<"rsqrt", d>>
LapCell(e, a, di, dj) == <<"lap", e, a, di, dj>>
EigCell(k, r) == <<"eig", k, r>>

NonFinite(c) == c \in {NaN, Inf}

Min(a, b) == IF a < b THEN a ELSE b
Max(a, b) == IF a < b THEN b ELSE a

\* A.shape[0]
NRows(M) == Cardinality(DOMAIN M)

\* A.shape[1] (of a matrix with at least one row)
NCols(M) == IF NRows(M) = 0 THEN 0 ELSE Cardinality(DOMAIN M[0])

\* Python's s[lo:hi] on a sequence: negative bounds count from the end and
\* both are clipped to the length.
PyIndex(x, len) == IF x < 0 THEN Max(x + len, 0) ELSE Min(x, len)

PySlice(s, lo, hi) == SubSeq(s, PyIndex(lo, Len(s)) + 1, PyIndex(hi, Len(s)))

\* A sequence of n copies of c.
Repeat(c, n) == [k \in 1..n |-> c]

\* A function on 0..n-1 as the sequence of its values.
AsSeq(f) == [k \in 1..NRows(f) |-> f[k - 1]]

RECURSIVE SumTo(_, _)
SumTo(row, n) == IF n = 0 THEN 0 ELSE SumTo(row, n - 1) + row[n - 1]

----------------------------------------------------------------------------
\* lap_eigen

\* np.sum(A, axis=1): the diagonal of D
Degree(M) == [i \in DOMAIN M |-> SumTo(M[i], NCols(M))]

\* The plain reciprocal in place of the pseudo-inverse: 1/0 is inf.
PinvDiagReciprocal(d) == IF d = 0 THEN Inf ELSE Recip(d)

\* np.linalg.pinv of a diagonal matrix, on one diagonal entry: the
\* pseudo-inverse maps 0 to 0.
PinvDiag(d) == IF d = 0 THEN Num(0) ELSE Recip(d)

\* np.sqrt on one diagonal entry of pinv(D)
SqrtCell(c) ==
    IF c = Num(0) THEN Num(0)
    ELSE IF c = Inf THEN Inf
    ELSE IF c[2] > 0 THEN RSqrt(c[2])
    ELSE NaN

\* The diagonal of D_sqrt_inv; its off-diagonal cells are sqrt(0) = 0.
D_sqrt_inv(M) == [i \in DOMAIN M |-> SqrtCell(PinvDiag(Degree(M)[i]))]

\* One cell of L = identity - D_sqrt_inv . A . D_sqrt_inv.  A non-finite
\* diagonal cell of D_sqrt_inv makes its whole row and column of the product
\* non-finite (inf * 0 = nan).
LCell(M, i, j) ==
    LET s == D_sqrt_inv(M)
        d == Degree(M)
        e == IF i = j THEN 1 ELSE 0
    IN  IF NonFinite(s[i]) \/ NonFinite(s[j]) THEN NaN
        ELSE IF s[i] = Num(0) \/ s[j] = Num(0) \/ M[i][j] = 0 THEN Num(e)
        ELSE LapCell(e, M[i][j], d[i], d[j])

Laplacian(M) == [i \in DOMAIN M |-> [j \in DOMAIN M |-> LCell(M, i, j)]]

Identity(n) ==
    [i \in 0..(n - 1) |-> [j \in 0..(n - 1) |-> Num(IF i = j THEN 1 ELSE 0)]]

\* np.linalg.eig followed by the argsort of the eigenvalues: row r of
\* eigvecs[:, sorted_indices].  The eigenvectors of the identity are the unit
\* vectors, all of eigenvalue 1, which the sort leaves in place; any other
\* finite L has eigenvectors the model only names.
SortedEigvecs(L) ==
    LET n == NRows(L)
    IN  IF L = Identity(n)
        THEN [r \in 0..(n - 1) |-> AsSeq(Identity(n)[r])]
        ELSE [r \in 0..(n - 1) |-> [k \in 1..n |-> EigCell(k - 1, r)]]

\* The selection without the skip of the lowest eigenvector: columns 0..dp-1.
SelectColumnsFromZero(eigvecs, n, d) ==
    IF n >= d
    THEN [r \in 0..(n - 1) |-> PySlice(eigvecs[r], 0, d)]
    ELSE [r \in 0..(n - 1) |-> eigvecs[r] \o Repeat(Num(0), d - n)]

\* The selection of the columns, lines 37-43.
SelectColumns(eigvecs, n, d) ==
    IF n >= d
    THEN [r \in 0..(n - 1) |-> PySlice(eigvecs[r], 1, d + 1)]
    ELSE [r \in 0..(n - 1) |-> eigvecs[r] \o Repeat(Num(0), d - n)]

\* lap_eigen(A, dp): the exception it raises, or "none" and the embedding.
lap_eigen(M, d) ==
    LET n == NRows(M)
        L == Laplacian(M)
    IN  IF n > 0 /\ NCols(M) # n
        THEN [err |-> "ValueError", P |-> <<>>]
        ELSE IF \E i, j \in DOMAIN M : NonFinite(L[i][j])
        THEN [err |-> "LinAlgError", P |-> <<>>]
        ELSE [err |-> "none", P |-> SelectColumns(SortedEigvecs(L), n, d)]

----------------------------------------------------------------------------
\* token_construction

\* The scan with the diagonal of A filtered out.
RECURSIVE ScanPairsNoLoops(_, _)
ScanPairsNoLoops(M, t) ==
    LET n == NRows(M)
    IN  IF t >= n * n THEN <<>>
        ELSE (IF M[t \div n][t % n] # 0 /\ t \div n # t % n
              THEN <<<<t \div n, t % n>>>> ELSE <<>>)
             \o ScanPairsNoLoops(M, t + 1)

\* The list comprehension of line 57, from the linear index t on.
RECURSIVE ScanPairs(_, _)
ScanPairs(M, t) ==
    LET n == NRows(M)
    IN  IF t >= n * n THEN <<>>
        ELSE (IF M[t \div n][t % n] # 0 THEN <<<<t \div n, t % n>>>> ELSE <<>>)
             \o ScanPairs(M, t + 1)

\* Number of columns of a 2-D array held as a sequence or function of rows;
\* np.atleast_2d turns the empty 1-D array into one of shape (1, 0).
Width(rows) == IF DOMAIN rows = {} THEN 0 ELSE Len(rows[CHOOSE i \in DOMAIN rows : TRUE])

NodeRow(i) == Xv[i] \o P[i] \o P[i] \o <<Num(1), Num(0), Num(-1), Num(-1)>>

EdgeRow(k) ==
    LET u == node_pairs[k][1]
        v == node_pairs[k][2]
    IN  Xe[k] \o P[u] \o P[v] \o <<Num(0), Num(1), Num(u), Num(v)>>

Raise(e) == pc' = "raised" /\ err' = e

\* line 57
FindEdges ==
    /\ pc = "start"
    /\ IF NRows(A) > 0 /\ NCols(A) < NRows(A)
       THEN Raise("IndexError") /\ UNCHANGED node_pairs
       ELSE /\ node_pairs' = ScanPairs(A, 0)
            /\ pc' = "Xe"
            /\ UNCHANGED err
    /\ UNCHANGED <<inputs, Xe, P, new_Xv, new_Xe, X, padded_X>>

\* lines 61-66
BuildXe ==
    /\ pc = "Xe"
    /\ Xe' = [k \in 1..Len(node_pairs) |->
                <<Num(A[node_pairs[k][1]][node_pairs[k][2]])>>]
    /\ pc' = "P"
    /\ UNCHANGED <<inputs, err, node_pairs, P, new_Xv, new_Xe, X, padded_X>>

\* What the call of line 70 can do: on a 0 x 0 matrix the numpy releases
\* differ, the linalg routines either accept the empty array or reject it.
lap_eigen_outcomes(M, d) ==
    IF NRows(M) = 0
    THEN {lap_eigen(M, d), [err |-> "LinAlgError", P |-> <<>>]}
    ELSE {lap_eigen(M, d)}

\* line 70
CallLapEigen ==
    /\ pc = "P"
    /\ \E r \in lap_eigen_outcomes(A, dp) :
           IF r.err # "none"
           THEN Raise(r.err) /\ UNCHANGED P
           ELSE P' = r.P /\ pc' = "new_Xv" /\ UNCHANGED err
    /\ UNCHANGED <<inputs, node_pairs, Xe, new_Xv, new_Xe, X, padded_X>>

\* lines 74-78: np.hstack raises when Ev is the empty 1-D array (N = 0) or
\* when Xv has another number of rows than P and Ev.
BuildNodeRows ==
    /\ pc = "new_Xv"
    /\ IF NRows(A) = 0 \/ NRows(Xv) # NRows(A)
       THEN Raise("ValueError") /\ UNCHANGED new_Xv
       ELSE /\ new_Xv' = [i \in 1..NRows(A) |-> NodeRow(i - 1)]
            /\ pc' = "new_Xe"
            /\ UNCHANGED err
    /\ UNCHANGED <<inputs, node_pairs, Xe, P, new_Xe, X, padded_X>>

\* lines 80-84
BuildEdgeRows ==
    /\ pc = "new_Xe"
    /\ new_Xe' = [k \in 1..Len(Xe) |-> EdgeRow(k)]
    /\ pc' = "X"
    /\ UNCHANGED <<inputs, err, node_pairs, Xe, P, new_Xv, X, padded_X>>

\* line 87: np.vstack raises unless both blocks have the same width.
Stack ==
    /\ pc = "X"
    /\ IF Width(new_Xv) # Width(new_Xe)
       THEN Raise("ValueError") /\ UNCHANGED X
       ELSE X' = new_Xv \o new_Xe /\ pc' = "pad" /\ UNCHANGED err
    /\ UNCHANGED <<inputs, node_pairs, Xe, P, new_Xv, new_Xe, padded_X>>

\* lines 89-97
PadOrCrop ==
    /\ pc = "pad"
    /\ LET padding == max_edges - Len(node_pairs)
       IN  padded_X' =
               IF padding > 0
               THEN X \o Repeat(Repeat(Num(0), Width(X)), padding)
               ELSE PySlice(X, 0, max_edges + NRows(A))
    /\ pc' = "done"
    /\ UNCHANGED <<inputs, err, node_pairs, Xe, P, new_Xv, new_Xe, X>>

----------------------------------------------------------------------------
\* The calls that are made

\* The n x k matrix with the nonzero pattern b, weighted by the scheme w.
Weighted(b, n, k, w) ==
    [i \in 0..(n - 1) |-> [j \in 0..(k - 1) |->
        IF b[i][j] = 0 THEN 0 ELSE IF w = "unit" THEN 1 ELSE 1 + i * k + j]]

Matrices(n, k) ==
    { Weighted(b, n, k, w) :
        b \in [0..(n - 1) -> [0..(k - 1) -> {0, 1}]], w \in WeightSchemes }

\* Node features: all zero, or all different.
Features(n, f) ==
    { [i \in 0..(n - 1) |-> [c \in 1..f |-> Num(0)]],
      [i \in 0..(n - 1) |-> [c \in 1..f |-> Num(10 * (i + 1) + c)]] }

Locals ==
    /\ pc = "start"
    /\ err = "none"
    /\ node_pairs = <<>>
    /\ Xe = <<>>
    /\ P = <<>>
    /\ new_Xv = <<>>
    /\ new_Xe = <<>>
    /\ X = <<>>
    /\ padded_X = <<>>

\* The calls the contract admits: A square (N >= 0), Xv with N rows and
\* F >= 1 columns, dp >= 1, capacity >= 0.
Init ==
    /\ \E n \in 0..MaxN : A \in Matrices(n, n)
    /\ F \in 1..MaxF
    /\ Xv \in Features(NRows(A), F)
    /\ dp \in 1..MaxDp
    /\ max_edges \in 0..MaxCap
    /\ Locals

\* Calls that may break the contract as well: A with one column less or more
\* than rows, Xv with one row more than A, dp and the capacity down to -1.
InitAny ==
    /\ \E n \in 1..MaxN : \E k \in (n - 1)..(n + 1) : A \in Matrices(n, k)
    /\ F \in 1..MaxF
    /\ \E m \in {NRows(A), NRows(A) + 1} : Xv \in Features(m, F)
    /\ dp \in (-1)..MaxDp
    /\ max_edges \in (-1)..MaxCap
    /\ Locals

Next ==
    \/ FindEdges
    \/ BuildXe
    \/ CallLapEigen
    \/ BuildNodeRows
    \/ BuildEdgeRows
    \/ Stack
    \/ PadOrCrop

Spec == Init /\ [][Next]_vars

SpecAny == InitAny /\ [][Next]_vars

----------------------------------------------------------------------------
\* Vocabulary of the properties

N == NRows(A)

\* The entries of A that are edges, and their number M.
EdgeSet == {e \in (DOMAIN A) \X (DOMAIN A) : A[e[1]][e[2]] # 0}

M == Cardinality(EdgeSet)

\* e comes before f in the row-major scan of A.
ScansBefore(e, f) == e[1] < f[1] \/ (e[1] = f[1] /\ e[2] < f[2])

\* The k-th edge (k = 1..M) of the row-major scan.
EdgeAt(k) ==
    CHOOSE f \in EdgeSet : Cardinality({e \in EdgeSet : ScansBefore(e, f)}) = k - 1

Ended == pc \in {"done", "raised"}

Returned == pc = "done"

\* lap_eigen has been called and has returned P.
EmbedReturned == pc \in {"new_Xv", "new_Xe", "X", "pad", "done"}

\* lap_eigen has been called and has returned or raised.
EmbedEnded == pc \notin {"start", "Xe", "P"}

\* The unpadded token matrix X has been built.
StackBuilt == pc \in {"pad", "done"}

\* The parts of a token row.
TypeTag(row) == SubSeq(row, Len(row) - 3, Len(row) - 2)

Indices(row) == SubSeq(row, Len(row) - 1, Len(row))

NodeTag == <<Num(1), Num(0)>>

EdgeTag == <<Num(0), Num(1)>>

IsZeroRow(row) == \A c \in 1..Len(row) : row[c] = Num(0)

\* row is the token of node i: its features, then the tag of a node.
IsNodeRowOf(row, i) ==
    /\ Len(row) >= F + 4
    /\ SubSeq(row, 1, F) = Xv[i]
    /\ TypeTag(row) = NodeTag
    /\ Indices(row) = <<Num(-1), Num(-1)>>

\* row is the token of the edge e: its weight, then the tag of an edge and
\* its two end points.
IsEdgeRowOf(row, e) ==
    /\ Len(row) >= 5
    /\ row[1] = Num(A[e[1]][e[2]])
    /\ TypeTag(row) = EdgeTag
    /\ Indices(row) = <<Num(e[1]), Num(e[2])>>

----------------------------------------------------------------------------
\* C1: every call with a square A, an N x F Xv, dp >= 1 and a capacity >= 0
\* returns an array of exactly N + capacity rows and F + 2*dp + 4 columns
\* (stated for the graphs that have a node).
C1_Shape ==
    (Ended /\ N >= 1) =>
        /\ Returned
        /\ Len(padded_X) = N + max_edges
        /\ \A r \in 1..Len(padded_X) : Len(padded_X[r]) = F + 2 * dp + 4

\* C2: with M >= capacity edges the call returns the N node rows followed by
\* exactly the first capacity edge rows of the row-major scan, and no all-zero
\* row (stated for the graphs that have a node).
C2_Truncation ==
    (Ended /\ N >= 1 /\ M >= max_edges) =>
        /\ Returned
        /\ Len(padded_X) = N + max_edges
        /\ \A i \in 0..(N - 1) : IsNodeRowOf(padded_X[i + 1], i)
        /\ \A k \in 1..max_edges : IsEdgeRowOf(padded_X[N + k], EdgeAt(k))
        /\ \A r \in 1..Len(padded_X) : ~IsZeroRow(padded_X[r])

\* C3: with M < capacity edges (M = 0 included) the call returns normally the
\* N node rows, then the M edge rows, then exactly capacity - M all-zero rows
\* (stated for the graphs that have a node).
C3_Padding ==
    (Ended /\ N >= 1 /\ M < max_edges) =>
        /\ Returned
        /\ Len(padded_X) = N + max_edges
        /\ \A i \in 0..(N - 1) : IsNodeRowOf(padded_X[i + 1], i)
        /\ \A k \in 1..M : IsEdgeRowOf(padded_X[N + k], EdgeAt(k))
        /\ \A r \in (N + M + 1)..(N + max_edges) : IsZeroRow(padded_X[r])

C5_RowLayout ==
    pc = "X" =>
        LET E == lap_eigen(A, dp).P
        IN  /\ \A i \in 0..(N - 1) :
                   /\ Len(Xv[i]) = F /\ Len(E[i]) = dp
                   /\ new_Xv[i + 1] =
                          Xv[i] \o E[i] \o E[i] \o <<Num(1), Num(0), Num(-1), Num(-1)>>
            /\ Len(new_Xe) = M
            /\ \A k \in 1..M :
                   LET u == EdgeAt(k)[1]
                       v == EdgeAt(k)[2]
                   IN  /\ A[u][v] # 0
                       /\ new_Xe[k] =
                              <<Num(A[u][v])>> \o E[u] \o E[v]
                                  \o <<Num(0), Num(1), Num(u), Num(v)>>

\* C6: lap_eigen returns N rows of dp columns for every A and every dp >= 1;
\* for N <= dp the available eigenvectors (all N of them, or the N - 1 beyond
\* the lowest) fill the leading columns and every other column is zero.
C6_EmbedShape ==
    pc = "new_Xv" =>
        /\ NRows(P) = N
        /\ \A i \in DOMAIN P : Len(P[i]) = dp
        /\ N <= dp =>
               \E w \in {N - 1, N} : \A i \in DOMAIN P :
                   /\ \A c \in 1..w :
                          P[i][c] = SortedEigvecs(Laplacian(A))[i][c + (N - w)]
                   /\ \A c \in (w + 1)..dp : P[i][c] = Num(0)

C8_ZeroDegree ==
    EmbedEnded =>
        \A i \in DOMAIN A :
            Degree(A)[i] = 0 =>
                /\ err # "LinAlgError"
                /\ i \in DOMAIN P
                /\ \A c \in 1..Len(P[i]) : ~NonFinite(P[i][c])
                /\ D_sqrt_inv(A)[i] = Num(0)
                /\ \A j \in DOMAIN A :
                       Laplacian(A)[i][j] = Num(IF i = j THEN 1 ELSE 0)

\* C8 witness: lap_eigen has returned for a graph with a node of degree 0
\* that other nodes point to, next to a node of positive degree.
C8_Witness ==
    /\ EmbedReturned
    /\ \E i, j \in DOMAIN A : Degree(A)[i] = 0 /\ Degree(A)[j] > 0 /\ A[j][i] # 0

\* The call breaks the contract of the inputs.
InvalidInput ==
    \/ NCols(A) # NRows(A)
    \/ NRows(Xv) # NRows(A)
    \/ dp <= 0
    \/ max_edges <= 0

\* C9: a call with a non-square A, with Xv of another leading dimension than
\* A, or with a non-positive dp or capacity ends in an error and returns no
\* token array.
C9_InvalidInputRaises == (Ended /\ InvalidInput) => pc = "raised"

\* C10: for a graph without edges the call returns N node rows tagged (1,0)
\* whose two embedding slots are all zero, followed by capacity all-zero rows.
C10_NoEdges ==
    (Ended /\ N >= 1 /\ M = 0) =>
        /\ Returned
        /\ Len(padded_X) = N + max_edges
        /\ \A i \in 0..(N - 1) :
               /\ IsNodeRowOf(padded_X[i + 1], i)
               /\ Len(padded_X[i + 1]) = F + 2 * dp + 4
               /\ \A c \in (F + 1)..(F + 2 * dp) : padded_X[i + 1][c] = Num(0)
        /\ \A r \in (N + 1)..(N + max_edges) : IsZeroRow(padded_X[r])

====
